---- MODULE Spec2Model ----
(***************************************************************************)
(* A model of xjpath (src/xjpath/xjpath.py): the escape-aware tokenizer,   *)
(* the type-suffix extractor, the index resolver and the recursive lookup  *)
(* engine with auto-vivification, driven over bounded trees and paths.     *)
(*                                                                         *)
(* Encoding.  A Python str is a sequence of one-character strings.  A data *)
(* node is a record [kind, sval, items]: kind is the Python type name,     *)
(* sval the payload of a scalar (its characters) and items the ordered     *)
(* entries [key, val] of a dict (insertion order), list or tuple (key is   *)
(* the empty string for list and tuple entries).                           *)
(***************************************************************************)
EXTENDS Integers, Sequences, FiniteSets, TLC

VARIABLES
    data_structure,    \* the caller's tree (XJPath.data_structure), mutated in place
    before,            \* the tree as it was when the last call began
    xj_path,           \* the path given to the last call
    create_dict_path,  \* the creation flag of the last call
    force_type,        \* the force_type of the last strict_path_lookup call
    escaped,           \* the literal key a caller escaped into the path, and where
    op,                \* the last operation
    result             \* what the last call returned or raised

vars == <<data_structure, before, xj_path, create_dict_path, force_type, escaped,
          op, result>>

-----------------------------------------------------------------------------
(* Python values *)

ESCAPE_SEQ == "\\"

NoItems == <<>>

Scalar(k, s) == [kind |-> k, sval |-> s, items |-> NoItems]

NoneVal == Scalar("NoneType", <<>>)
StrVal(s) == Scalar("str", s)
IntVal(s) == Scalar("int", s)
FloatVal(s) == Scalar("float", s)
BoolVal(s) == Scalar("bool", s)

Entry(k, v) == [key |-> k, val |-> v]

Container(k, es) == [kind |-> k, sval |-> <<>>, items |-> es]

DictVal(es) == Container("dict", es)
ListVal(vs) == Container("list", [i \in 1..Len(vs) |-> Entry(<<>>, vs[i])])
TupleVal(vs) == Container("tuple", [i \in 1..Len(vs) |-> Entry(<<>>, vs[i])])

Values(node) == [i \in 1..Len(node.items) |-> node.items[i].val]

\* bool(x): the truth value Python gives a list, tuple, dict or str.
Truthy(node) ==
    IF node.kind \in {"dict", "list", "tuple"} THEN Len(node.items) > 0
    ELSE IF node.kind = "str" THEN Len(node.sval) > 0
    ELSE IF node.kind = "NoneType" THEN FALSE
    ELSE node.sval \notin {<<"0">>, <<"0", ".", "0">>, <<"F">>}

\* isinstance(value, val_type) for the types of _KEY_SPLIT (bool is an int).
IsInstance(value, val_type) ==
    IF val_type = "int" THEN value.kind \in {"int", "bool"}
    ELSE value.kind = val_type

\* A dict created whatever the suffix type is.
EmptyDictAlways(val_type) == DictVal(<<>>)

\* val_type(): the empty instance the constructor of a _KEY_SPLIT type gives.
EmptyInstance(val_type) ==
    CASE val_type = "str" -> StrVal(<<>>)
      [] val_type = "int" -> IntVal(<<"0">>)
      [] val_type = "float" -> FloatVal(<<"0", ".", "0">>)
      [] val_type = "dict" -> DictVal(<<>>)
      [] val_type = "list" -> ListVal(<<>>)
      [] val_type = "tuple" -> TupleVal(<<>>)

-----------------------------------------------------------------------------
(* str helpers *)

StartsWith(s, c) == Len(s) > 0 /\ s[1] = c

Drop(s, n) == IF n >= Len(s) THEN <<>> ELSE SubSeq(s, n + 1, Len(s))

Take(s, n) == IF n <= 0 THEN <<>> ELSE SubSeq(s, 1, IF n > Len(s) THEN Len(s) ELSE n)

Digits == {"0", "1", "2", "3", "4", "5", "6", "7", "8", "9"}

DigitVal(c) ==
    CASE c = "0" -> 0 [] c = "1" -> 1 [] c = "2" -> 2 [] c = "3" -> 3
      [] c = "4" -> 4 [] c = "5" -> 5 [] c = "6" -> 6 [] c = "7" -> 7
      [] c = "8" -> 8 [] c = "9" -> 9

\* str.isdigit(): non-empty and every character a digit.
IsDigit(s) == Len(s) > 0 /\ \A i \in 1..Len(s) : s[i] \in Digits

RECURSIVE ToInt(_)
ToInt(s) == IF s = <<>> THEN 0 ELSE 10 * ToInt(Take(s, Len(s) - 1)) + DigitVal(s[Len(s)])

\* a in b for two str values: a occurs in b as a substring.
IsSubstring(a, b) ==
    \E i \in 0..(Len(b) - Len(a)) : \A j \in 1..Len(a) : b[i + j] = a[j]

-----------------------------------------------------------------------------
(* split: the escape-aware tokenizer *)

\* The generator's loop from position i on, word_chars holding the current
\* word; returns the sequence of the strings it yields.
RECURSIVE SplitLoop(_, _, _, _, _, _)
SplitLoop(inp_str, i, word_chars, sep_char, maxsplit, escape_char) ==
    IF i > Len(inp_str) THEN <<word_chars>>
    ELSE LET c == inp_str[i] IN
         IF c = escape_char
         THEN IF i + 1 > Len(inp_str)
              THEN <<Append(word_chars, c)>>
              ELSE LET next_char == inp_str[i + 1] IN
                   IF next_char = sep_char
                   THEN SplitLoop(inp_str, i + 2, Append(word_chars, next_char),
                                  sep_char, maxsplit, escape_char)
                   ELSE SplitLoop(inp_str, i + 2,
                                  Append(Append(word_chars, c), next_char),
                                  sep_char, maxsplit, escape_char)
         ELSE IF c = sep_char
         THEN IF maxsplit - 1 = 0
              THEN <<word_chars, Drop(inp_str, i)>>
              ELSE <<word_chars>> \o SplitLoop(inp_str, i + 1, <<>>, sep_char,
                                               maxsplit - 1, escape_char)
         ELSE SplitLoop(inp_str, i + 1, Append(word_chars, c), sep_char,
                        maxsplit, escape_char)

split(inp_str, sep_char, maxsplit) ==
    SplitLoop(inp_str, 1, <<>>, sep_char, maxsplit, ESCAPE_SEQ)

-----------------------------------------------------------------------------
(* unescape and the type-suffix extractor *)

RECURSIVE UnescapeLoop(_, _, _)
UnescapeLoop(in_str, i, escape_char) ==
    IF i > Len(in_str) THEN <<>>
    ELSE IF in_str[i] = escape_char
    THEN IF i + 1 > Len(in_str) THEN <<>>
         ELSE <<in_str[i + 1]>> \o UnescapeLoop(in_str, i + 2, escape_char)
    ELSE <<in_str[i]>> \o UnescapeLoop(in_str, i + 1, escape_char)

unescape(in_str) == UnescapeLoop(in_str, 1, ESCAPE_SEQ)

\* _KEY_SPLIT: the type a marker names, "None" for a string that is no marker.
KeySplitType(type_v) ==
    CASE type_v = <<"$">> -> "str"
      [] type_v = <<"#">> -> "int"
      [] type_v = <<"%">> -> "float"
      [] type_v = <<"{", "}">> -> "dict"
      [] type_v = <<"[", "]">> -> "list"
      [] type_v = <<"(", ")">> -> "tuple"
      [] OTHER -> "None"

\* The number of consecutive escape characters that end at position pos.
RECURSIVE EscCount(_, _, _)
EscCount(key_name, pos, escape_char) ==
    IF pos < 1 THEN 0
    ELSE IF key_name[pos] = escape_char
    THEN 1 + EscCount(key_name, pos - 1, escape_char)
    ELSE 0

NoType(key_name) == [val_type |-> "None", key |-> key_name]

\* One pass of the loop "for i in (2, 1)" of _clean_key_type.
RECURSIVE CleanKeyTypeLoop(_, _)
CleanKeyTypeLoop(key_name, i) ==
    IF i < 1 THEN NoType(key_name)
    ELSE IF Len(key_name) < i THEN NoType(key_name)
    ELSE LET type_v == Drop(key_name, Len(key_name) - i) IN
         IF KeySplitType(type_v) # "None"
         THEN IF Len(key_name) <= i
              THEN [val_type |-> KeySplitType(type_v), key |-> <<>>]
              ELSE IF EscCount(key_name, Len(key_name) - i, ESCAPE_SEQ) % 2 = 0
              THEN [val_type |-> KeySplitType(type_v),
                    key |-> Take(key_name, Len(key_name) - i)]
              ELSE NoType(key_name)
         ELSE CleanKeyTypeLoop(key_name, i - 1)

\* The marker stripped without a look at the escape characters before it.
CleanKeyTypeNoEscape(key_name) ==
    IF Len(key_name) >= 2 /\ KeySplitType(Drop(key_name, Len(key_name) - 2)) # "None"
    THEN [val_type |-> KeySplitType(Drop(key_name, Len(key_name) - 2)),
          key |-> Take(key_name, Len(key_name) - 2)]
    ELSE IF Len(key_name) >= 2 /\ KeySplitType(Drop(key_name, Len(key_name) - 1)) # "None"
    THEN [val_type |-> KeySplitType(Drop(key_name, Len(key_name) - 1)),
          key |-> Take(key_name, Len(key_name) - 1)]
    ELSE NoType(key_name)

_clean_key_type(key_name) == CleanKeyTypeLoop(key_name, 2)

-----------------------------------------------------------------------------
(* the index resolver *)

\* [err, idx]: err is TRUE where the code raises XJPathError.
_get_array_index(array_path) ==
    IF ~StartsWith(array_path, "@") THEN [err |-> TRUE, idx |-> 0]
    ELSE LET rest == Drop(array_path, 1) IN
         IF rest = <<"l", "a", "s", "t">> THEN [err |-> FALSE, idx |-> -1]
         ELSE IF rest = <<"f", "i", "r", "s", "t">> THEN [err |-> FALSE, idx |-> 0]
         ELSE IF IsDigit(rest) THEN [err |-> FALSE, idx |-> ToInt(rest)]
         ELSE IF StartsWith(rest, "-") /\ IsDigit(Drop(rest, 1))
         THEN [err |-> FALSE, idx |-> 0 - ToInt(Drop(rest, 1))]
         ELSE [err |-> TRUE, idx |-> 0]

-----------------------------------------------------------------------------
(* outcomes of a call: what it returned or raised, and the tree it leaves *)

\* path_lookup returning (value, True).
Found(value, obj) == [status |-> "found", msg |-> "", value |-> value, obj |-> obj]

\* path_lookup returning (None, False).
Absent(obj) == [status |-> "absent", msg |-> "", value |-> NoneVal, obj |-> obj]

\* An exception of class cls leaving the call.
Raised(cls, msg, obj) == [status |-> cls, msg |-> msg, value |-> NoneVal, obj |-> obj]

\* A plain value returned (strict_path_lookup, XJPath.__getitem__, XJPath.get).
Returned(value, obj) == [status |-> "returned", msg |-> "", value |-> value, obj |-> obj]

IsRaise(out) == out.status \in {"XJPathError", "TypeError", "IndexError"}

-----------------------------------------------------------------------------
(* the operations of Python containers the engine uses *)

KeyPos(data_obj, key) ==
    IF \E i \in 1..Len(data_obj.items) : data_obj.items[i].key = key
    THEN CHOOSE i \in 1..Len(data_obj.items) : data_obj.items[i].key = key
    ELSE 0

\* "top_key in data_obj": "yes", "no", or "TypeError" for an object that is
\* not iterable.  A list or tuple is searched for an equal element, a str for
\* a substring.
Contains(data_obj, top_key) ==
    IF data_obj.kind = "dict"
    THEN IF KeyPos(data_obj, top_key) > 0 THEN "yes" ELSE "no"
    ELSE IF data_obj.kind \in {"list", "tuple"}
    THEN IF \E i \in 1..Len(data_obj.items) :
                data_obj.items[i].val = StrVal(top_key)
         THEN "yes" ELSE "no"
    ELSE IF data_obj.kind = "str"
    THEN IF IsSubstring(top_key, data_obj.sval) THEN "yes" ELSE "no"
    ELSE "TypeError"

\* The object with the value of entry i replaced (a nested call mutates the
\* value in place, which is seen through every container that holds it).
WithItem(data_obj, i, v) ==
    [data_obj EXCEPT !.items = [data_obj.items EXCEPT ![i] = Entry(data_obj.items[i].key, v)]]

\* data_obj[top_key] = v: a new last entry, or the value of the key replaced.
SetItem(data_obj, top_key, v) ==
    IF KeyPos(data_obj, top_key) > 0
    THEN [data_obj EXCEPT !.items[KeyPos(data_obj, top_key)] = Entry(top_key, v)]
    ELSE [data_obj EXCEPT !.items = Append(data_obj.items, Entry(top_key, v))]

\* A list taken for a dict by the check before creation.
IsDictOrList(data_obj) == data_obj.kind \in {"dict", "list"}

\* isinstance(data_obj, dict), the check that guards creation.
IsDict(data_obj) == data_obj.kind = "dict"

\* The outcome of a nested call on entry i, seen from the container.
Lift(data_obj, i, out) == [out EXCEPT !.obj = WithItem(data_obj, i, out.obj)]

\* The position of data_obj[array_idx], 0 where Python raises IndexError.
IndexPos(data_obj, array_idx) ==
    LET n == Len(data_obj.items)
        pos == IF array_idx >= 0 THEN array_idx + 1 ELSE n + array_idx + 1
    IN IF pos >= 1 /\ pos <= n THEN pos ELSE 0

-----------------------------------------------------------------------------
(* the lookup engine *)

RECURSIVE path_lookup(_, _, _)
RECURSIVE _full_sub_array(_, _, _)
RECURSIVE _single_array_element(_, _, _, _)
RECURSIVE FullSubArrayLoop(_, _, _, _, _)

\* The loop "for d in data_obj" (or data_obj.values()) of _full_sub_array
\* from entry i on, res holding the values collected so far.
FullSubArrayLoop(data_obj, i, res, xj_path_, create) ==
    IF i > Len(data_obj.items) THEN Found(TupleVal(res), data_obj)
    ELSE LET out == path_lookup(data_obj.items[i].val, xj_path_, create) IN
         IF IsRaise(out) THEN Lift(data_obj, i, out)
         ELSE FullSubArrayLoop(WithItem(data_obj, i, out.obj), i + 1,
                               IF out.status = "found" THEN Append(res, out.value)
                               ELSE res,
                               xj_path_, create)

\* Every element kept, None standing for one whose sub-path does not resolve.
FullSubArrayUnfiltered(data_obj, xj_path_, create) ==
    IF data_obj.kind \in {"list", "dict"}
    THEN Found(TupleVal([i \in 1..Len(data_obj.items) |->
                   path_lookup(data_obj.items[i].val, xj_path_, create).value]),
               data_obj)
    ELSE Absent(data_obj)

_full_sub_array(data_obj, xj_path_, create) ==
    IF data_obj.kind \in {"list", "dict"}
    THEN IF xj_path_ # <<>>
         THEN FullSubArrayLoop(data_obj, 1, <<>>, xj_path_, create)
         ELSE Found(TupleVal(Values(data_obj)), data_obj)
    ELSE Absent(data_obj)

_single_array_element(data_obj, xj_path_, array_path, create) ==
    LET ct == _clean_key_type(array_path)
        val_type == ct.val_type
        ai == _get_array_index(ct.key)
    IN IF ai.err
       THEN IF StartsWith(ct.key, "@")
            THEN Raised("XJPathError", "Unknown index reference", data_obj)
            ELSE Raised("XJPathError", "Array index must start from @ symbol.", data_obj)
       ELSE IF Truthy(data_obj) /\ data_obj.kind \in {"list", "tuple"}
       THEN LET pos == IndexPos(data_obj, ai.idx) IN
            IF pos = 0 THEN Absent(data_obj)
            ELSE LET value == data_obj.items[pos].val IN
                 IF val_type # "None" /\ ~IsInstance(value, val_type)
                 THEN Raised("XJPathError", "Index array does not match expected type",
                             data_obj)
                 ELSE IF xj_path_ # <<>>
                 THEN Lift(data_obj, pos, path_lookup(value, xj_path_, create))
                 ELSE Found(value, data_obj)
       ELSE IF val_type # "None"
       THEN Raised("XJPathError", "Expected the list element type", data_obj)
       ELSE Absent(data_obj)

path_lookup(data_obj, xj_path_, create) ==
    IF xj_path_ = <<>> \/ xj_path_ = <<".">> THEN Found(data_obj, data_obj)
    ELSE
    LET res == split(xj_path_, ".", 1)
        leftover == IF Len(res) > 1 THEN res[2] ELSE <<>>
    IN IF res[1] = <<"*">> THEN _full_sub_array(data_obj, leftover, create)
       ELSE IF StartsWith(res[1], "@")
       THEN _single_array_element(data_obj, leftover, res[1], create)
       ELSE
       LET ct == _clean_key_type(res[1])
           val_type == ct.val_type
           top_key == unescape(ct.key)
           has == Contains(data_obj, top_key)
       IN IF has = "TypeError"
          THEN Raised("TypeError", "argument is not iterable", data_obj)
          ELSE IF has = "yes"
          THEN IF data_obj.kind # "dict"
               THEN Raised("TypeError", "indices must be integers", data_obj)
               ELSE LET pos == KeyPos(data_obj, top_key)
                        value == data_obj.items[pos].val
                    IN IF val_type # "None" /\ ~IsInstance(value, val_type)
                       THEN Raised("XJPathError", "Key expects another type", data_obj)
                       ELSE IF leftover # <<>>
                       THEN Lift(data_obj, pos, path_lookup(value, leftover, create))
                       ELSE Found(value, data_obj)
          ELSE IF val_type # "None"
          THEN IF ~IsDict(data_obj)
               THEN Raised("XJPathError", "Accessed object must be a dict type", data_obj)
               ELSE IF create
               THEN LET made == SetItem(data_obj, top_key, EmptyInstance(val_type))
                        pos == KeyPos(made, top_key)
                    IN IF leftover # <<>>
                       THEN Lift(made, pos,
                                 path_lookup(made.items[pos].val, leftover, create))
                       ELSE Found(made.items[pos].val, made)
               ELSE Absent(data_obj)
          ELSE Absent(data_obj)

\* The creation flag set where the caller gives none.
DefaultCreates == TRUE

\* create_dict_path=False: the flag of a call that gives none.
DefaultCreateDictPath == FALSE

\* Absence returned as None.
StrictReturnsNone(data_obj, xj_path_, force_type_) ==
    LET out == path_lookup(data_obj, xj_path_, DefaultCreateDictPath) IN
    IF IsRaise(out) THEN out ELSE Returned(out.value, out.obj)

\* strict_path_lookup: path_lookup without the creation flag; absence raises.
strict_path_lookup(data_obj, xj_path_, force_type_) ==
    LET out == path_lookup(data_obj, xj_path_, DefaultCreateDictPath) IN
    IF IsRaise(out) THEN out
    ELSE IF out.status = "found"
    THEN IF force_type_ # "None" /\ ~IsInstance(out.value, force_type_)
         THEN Raised("XJPathError", "Found value is a wrong type", out.obj)
         ELSE Returned(out.value, out.obj)
    ELSE Raised("XJPathError", "Path does not exist", out.obj)

\* XJPath.__getitem__: every engine error and absence become IndexError.
XJPath_getitem(data_obj, item) ==
    LET out == path_lookup(data_obj, item, DefaultCreateDictPath) IN
    IF IsRaise(out) THEN Raised("IndexError", "Path error", out.obj)
    ELSE IF out.status = "found" THEN Returned(out.value, out.obj)
    ELSE Raised("IndexError", "Path does not exist", out.obj)

\* XJPath.get: the default where __getitem__ raises IndexError.
XJPath_get(data_obj, path, default) ==
    LET out == XJPath_getitem(data_obj, path) IN
    IF out.status = "IndexError" THEN Returned(default, out.obj) ELSE out

-----------------------------------------------------------------------------
(* validate_path *)

\* str.strip() for the blank: the blanks at both ends removed.
RECURSIVE Strip(_)
Strip(s) ==
    IF StartsWith(s, " ") THEN Strip(Drop(s, 1))
    ELSE IF Len(s) > 0 /\ s[Len(s)] = " " THEN Strip(Take(s, Len(s) - 1))
    ELSE s

\* The digits of an int literal: a digit first and last, and single
\* underscores between digits.
DigitGroups(s) ==
    /\ Len(s) > 0
    /\ s[1] \in Digits
    /\ s[Len(s)] \in Digits
    /\ \A i \in 1..Len(s) : s[i] \in Digits \cup {"_"}
    /\ \A i \in 1..(Len(s) - 1) : ~(s[i] = "_" /\ s[i + 1] = "_")

\* int(s) returns for a str s (FALSE where it raises ValueError): blanks
\* around, one sign, and digits that may be grouped by underscores.
IntParses(s) ==
    LET body == Strip(s) IN
    IF StartsWith(body, "+") \/ StartsWith(body, "-")
    THEN DigitGroups(Drop(body, 1))
    ELSE DigitGroups(body)

\* The check of one token of the path: TRUE where validate_path raises.
BadToken(path) ==
    IF path = <<"*">> THEN FALSE
    ELSE IF StartsWith(path, "@")
    THEN IF path = <<"@", "f", "i", "r", "s", "t">> \/ path = <<"@", "l", "a", "s", "t">>
         THEN FALSE
         ELSE ~IntParses(Drop(path, 1))
    ELSE FALSE

\* validate_path(xj_path_), xj_path_ a Python value; obj is the caller's tree,
\* which the call does not see.
validate_path(xj_path_, obj) ==
    IF xj_path_.kind # "str"
    THEN Raised("XJPathError", "XJPath must be a string", obj)
    ELSE LET tokens == split(xj_path_.sval, ".", 0 - 1) IN
         IF \E i \in 1..Len(tokens) : BadToken(tokens[i])
         THEN Raised("XJPathError",
                     "Array index must be either integer or @first or @last", obj)
         ELSE Returned(NoneVal, obj)

-----------------------------------------------------------------------------
(* bounded inputs *)

\* The largest n of an index segment @n or @-n.
MaxIndex == 2

\* The longest list among the generated trees.
MaxListLen == 2

\* The number of segments that may follow the first segment of a path.
MaxTail == 1

A == <<"a">>
B == <<"b">>
C == <<"c">>

One == IntVal(<<"1">>)
Leaves == {One, StrVal(A), FloatVal(<<"0", ".", "5">>), BoolVal(<<"T">>), NoneVal}

KeyNames == {A, B}

Markers == {<<"$">>, <<"#">>, <<"%">>, <<"{", "}">>, <<"[", "]">>, <<"(", ")">>}

DigitChar(n) == CHOOSE c \in Digits : DigitVal(c) = n

Selectors ==
    {<<"f", "i", "r", "s", "t">>, <<"l", "a", "s", "t">>}
    \cup {<<DigitChar(n)>> : n \in 0..MaxIndex}
    \cup {<<"-", DigitChar(n)>> : n \in 1..MaxIndex}

KeySegments == KeyNames \cup {k \o m : k \in KeyNames, m \in Markers}

IndexSegments ==
    {<<"@">> \o sel \o m : sel \in Selectors, m \in {<<>>, <<"#">>, <<"{", "}">>}}

Segments == KeySegments \cup IndexSegments \cup {<<"*">>}

TailSegments ==
    {A, A \o <<"{", "}">>, B \o <<"[", "]">>, <<"*">>, <<"@", "l", "a", "s", "t">>}

RECURSIVE Tails(_)
Tails(n) ==
    IF n = 0 THEN {<<>>}
    ELSE {<<>>} \cup {<<".">> \o t \o rest : t \in TailSegments, rest \in Tails(n - 1)}

\* The paths of the tests and of the documentation that the generated ones
\* do not cover.
ExamplePaths ==
    {<<>>, <<".">>,
     <<"a", "{", "}", ".", "b", "{", "}", ".", "c", "[", "]">>,
     <<"a", "{", "}", ".", "b", "{", "}", ".", "c", "{", "}">>,
     <<"a", ".", "b", ".", "c">>,
     <<"a", ".", "*", ".", "b">>,
     <<"a", "$", ".", "b", "{", "}">>, <<"a", ".", "b", "#">>,
     <<"*", ".", "@", "1", "#">>,
     <<"@", "9">>, <<"@", "x">>, <<"a", "\\", "$">>}

Paths == {s \o t : s \in Segments, t \in Tails(MaxTail)} \cup ExamplePaths

Atoms == Leaves \cup {DictVal(<<>>), ListVal(<<>>), TupleVal(<<>>)}

Elems == {One, StrVal(A), DictVal(<<Entry(A, One)>>), DictVal(<<>>)}

RECURSIVE SeqsUpTo(_, _)
SeqsUpTo(S, n) ==
    IF n = 0 THEN {<<>>}
    ELSE LET shorter == SeqsUpTo(S, n - 1) IN
         shorter \cup {Append(q, x) : q \in shorter, x \in S}

Lists == {ListVal(q) : q \in SeqsUpTo(Elems, MaxListLen)}

Tuples == {TupleVal(q) : q \in SeqsUpTo({One, DictVal(<<>>)}, 1)}

Dicts1 == {DictVal(<<Entry(k, x)>>) : k \in KeyNames, x \in Atoms}

Dicts2 ==
    {DictVal(<<Entry(A, x), Entry(B, y)>>) :
        x \in {One, DictVal(<<>>)}, y \in {StrVal(A), ListVal(<<>>)}}

Nested == {DictVal(<<Entry(A, x)>>) : x \in Dicts1 \cup Lists \cup Tuples}

\* Trees of the tests: a key that ends in a marker, a list under nested keys.
TestTrees ==
    {DictVal(<<Entry(<<"a", "$">>, StrVal(A))>>),
     DictVal(<<Entry(<<"a", "$">>, One)>>),
     DictVal(<<Entry(<<"a", "{", "}">>, DictVal(<<Entry(<<"1">>, One)>>))>>),
     ListVal(<<StrVal(<<"1">>), DictVal(<<Entry(B, One)>>), StrVal(<<"3">>)>>),
     ListVal(<<One, IntVal(<<"2">>), IntVal(<<"3">>)>>)}

Trees == Atoms \cup Lists \cup Tuples \cup Dicts1 \cup Dicts2 \cup Nested \cup TestTrees

ForceTypes == {"None", "dict"}

-----------------------------------------------------------------------------
(* the state machine: a caller holding one tree and calling the library *)

NoKey == [key |-> <<>>, pos |-> 0]

NoResult == [status |-> "none", msg |-> "", value |-> NoneVal, obj |-> NoneVal]

\* XJPath.__init__: the object holds the caller's tree.
Init ==
    /\ data_structure \in Trees
    /\ before = data_structure
    /\ xj_path = <<>>
    /\ create_dict_path = FALSE
    /\ force_type = "None"
    /\ escaped = NoKey
    /\ op = "init"
    /\ result = NoResult

\* One call of the library on the tree the caller holds; the calls of a
\* behaviour are made on a fresh tree each, so every call starts from a tree
\* of Trees.
Call(name, p, c, ft, out) ==
    /\ before' = data_structure
    /\ xj_path' = p
    /\ create_dict_path' = c
    /\ force_type' = ft
    /\ op' = name
    /\ result' = out
    /\ data_structure' = out.obj
    /\ UNCHANGED escaped

\* path_lookup(data_structure, p, c)
PathLookup ==
    /\ op = "init"
    /\ \E p \in Paths, c \in BOOLEAN :
           Call("path_lookup", p, c, "None", path_lookup(data_structure, p, c))

\* strict_path_lookup(data_structure, p, ft)
StrictPathLookup ==
    /\ op = "init"
    /\ \E p \in Paths, ft \in ForceTypes :
           Call("strict_path_lookup", p, DefaultCreateDictPath, ft,
                strict_path_lookup(data_structure, p, ft))

\* XJPath(data_structure)[p]
GetItem ==
    /\ op = "init"
    /\ \E p \in Paths :
           Call("__getitem__", p, DefaultCreateDictPath, "None",
                XJPath_getitem(data_structure, p))

\* XJPath(data_structure).get(p)
Get ==
    /\ op = "init"
    /\ \E p \in Paths :
           Call("get", p, DefaultCreateDictPath, "None",
                XJPath_get(data_structure, p, NoneVal))

Next == PathLookup \/ StrictPathLookup \/ GetItem \/ Get

Spec == Init /\ [][Next]_vars

-----------------------------------------------------------------------------
(* a caller that escapes a literal key into a path *)

\* The longest literal key.
MaxKeyLen == 3

EscAlphabet ==
    {".", "@", "*", "\\", "$", "#", "%", "{", "}", "[", "]", "(", ")", "a"}

\* The characters the path syntax gives a meaning to.
SpecialChars == EscAlphabet \ {"a"}

EscKeys == SeqsUpTo(EscAlphabet, MaxKeyLen) \ {<<>>}

\* The key with every special character prefixed by the escape character.
RECURSIVE EscapeKey(_)
EscapeKey(k) ==
    IF k = <<>> THEN <<>>
    ELSE (IF k[1] \in SpecialChars THEN <<ESCAPE_SEQ, k[1]>> ELSE <<k[1]>>)
         \o EscapeKey(Drop(k, 1))

P == <<"p">>
Q == <<"q">>
Stored == IntVal(<<"3", "1">>)

\* The positions of the key in the path: 1 first (K.q), 2 middle (p.K.q),
\* 3 last (p.K).
Positions == {1, 2, 3}

EscapedPath(k, pos) ==
    CASE pos = 1 -> EscapeKey(k) \o <<".">> \o Q
      [] pos = 2 -> P \o <<".">> \o EscapeKey(k) \o <<".">> \o Q
      [] pos = 3 -> P \o <<".">> \o EscapeKey(k)

\* The tree that holds k as a literal key where the path looks for it.
LiteralTree(k, pos) ==
    CASE pos = 1 -> DictVal(<<Entry(k, DictVal(<<Entry(Q, Stored)>>))>>)
      [] pos = 2 ->
           DictVal(<<Entry(P, DictVal(<<Entry(k, DictVal(<<Entry(Q, Stored)>>))>>))>>)
      [] pos = 3 -> DictVal(<<Entry(P, DictVal(<<Entry(k, Stored)>>))>>)

\* The caller holds the tree and has built the escaped path.
InitEscape ==
    /\ \E k \in EscKeys, pos \in Positions :
           /\ escaped = [key |-> k, pos |-> pos]
           /\ data_structure = LiteralTree(k, pos)
           /\ xj_path = EscapedPath(k, pos)
    /\ before = data_structure
    /\ create_dict_path = FALSE
    /\ force_type = "None"
    /\ op = "init"
    /\ result = NoResult

\* path_lookup(data_structure, xj_path, c) on the escaped path.
LookupEscaped ==
    /\ op = "init"
    /\ \E c \in BOOLEAN :
           Call("path_lookup", xj_path, c, "None", path_lookup(data_structure, xj_path, c))

NextEscape == LookupEscaped

SpecEscape == InitEscape /\ [][NextEscape]_vars

-----------------------------------------------------------------------------
(* a caller that validates a path before using it *)

\* The longest generated argument of validate_path.
MaxPathLen == 4

ValidateAlphabet == {"@", ".", "\\", "*", "-", "+", "1", "_", " ", "x"}

\* The arguments of the tests, and keys that carry a type suffix.
ValidateExamples ==
    {<<"x", ".", "f", ".", "g", ".", "@", "f", "i", "r", "s", "t">>,
     <<"x", ".", "f", ".", "g", ".", "@", "l", "a", "s", "t">>,
     <<"x", ".", "*", ".", "*", ".", "@", "l", "a", "s", "t">>,
     <<"x", ".", "@", "f", "i", "r", "s", "t", ".", "\\", "*", ".", "@", "l", "a", "s", "t">>,
     <<"x", ".", "@", "w", "e", "d", "w", "e">>,
     <<"@", "f", "i", "r", "s", "t", "x">>, <<"@", "1", "#">>}
    \cup {k \o m \o <<".", "@", "-", "1", "0">> : k \in KeyNames, m \in Markers}

\* What a caller may pass: a str, or a value that is no str (the test
\* passes 10).
ValidateArgs ==
    {StrVal(s) : s \in SeqsUpTo(ValidateAlphabet, MaxPathLen) \cup ValidateExamples}
    \cup {IntVal(<<"1", "0">>), NoneVal, ListVal(<<StrVal(A)>>)}

\* The caller holds a tree and an argument for validate_path; xj_path is the
\* argument as a Python value.
InitValidate ==
    /\ data_structure = DictVal(<<>>)
    /\ before = data_structure
    /\ xj_path \in ValidateArgs
    /\ create_dict_path = FALSE
    /\ force_type = "None"
    /\ escaped = NoKey
    /\ op = "init"
    /\ result = NoResult

\* validate_path(xj_path)
ValidatePath ==
    /\ op = "init"
    /\ Call("validate_path", xj_path, FALSE, "None",
            validate_path(xj_path, data_structure))

NextValidate == ValidatePath

SpecValidate == InitValidate /\ [][NextValidate]_vars

-----------------------------------------------------------------------------
(* the type-suffix extractor applied to one raw segment token *)

\* The longest raw token.
MaxTokenLen == 3

TokenAlphabet == {"\\", "$", "#", "%", "{", "}", "[", "]", "(", ")", "a"}

\* The raw tokens of length >= 1, the tokens of the tests among them.
RawTokens ==
    (SeqsUpTo(TokenAlphabet, MaxTokenLen) \ {<<>>})
    \cup {<<"a", "\\", "{", "}">>, <<"a", "\\", "[", "]">>, <<"a", "\\", "\\", "$">>}

\* A caller about to extract the type suffix of a token; xj_path is the token.
InitCleanKey ==
    /\ data_structure = DictVal(<<>>)
    /\ before = data_structure
    /\ xj_path \in RawTokens
    /\ create_dict_path = FALSE
    /\ force_type = "None"
    /\ escaped = NoKey
    /\ op = "init"
    /\ result = NoResult

\* _clean_key_type(xj_path): the pair it returns is the value of the result.
CleanKeyType ==
    /\ op = "init"
    /\ Call("_clean_key_type", xj_path, FALSE, "None",
            Returned(_clean_key_type(xj_path), data_structure))

NextCleanKey == CleanKeyType

SpecCleanKey == InitCleanKey /\ [][NextCleanKey]_vars

-----------------------------------------------------------------------------
(* what a state says about the call that produced it *)

\* The first segment of the last call's path, and the rest of the path.
TopSeg == split(xj_path, ".", 1)[1]
Leftover == IF Len(split(xj_path, ".", 1)) > 1 THEN split(xj_path, ".", 1)[2] ELSE <<>>

IsLookup == op = "path_lookup" /\ xj_path # <<>> /\ xj_path # <<".">>

\* A segment that is a key: neither the wildcard nor an index.
IsKeySegment(seg) == seg # <<"*">> /\ ~StartsWith(seg, "@")

HeadType == _clean_key_type(TopSeg).val_type
HeadKey == unescape(_clean_key_type(TopSeg).key)

HasKey(node, key) == node.kind = "dict" /\ KeyPos(node, key) > 0

\* A list or a tuple: what an index segment addresses.
IsSequence(node) == node.kind \in {"list", "tuple"}

HeadIndex == _get_array_index(_clean_key_type(TopSeg).key)

\* C1: strict_path_lookup(D, P) agrees with path_lookup(D, P) in read mode:
\* where path_lookup returns (v, True) it returns exactly v, and where
\* path_lookup returns exists=False it raises the not-found XJPathError.
C1_StrictAgreesWithLookup ==
    (op = "strict_path_lookup" /\ force_type = "None") =>
        LET pl == path_lookup(before, xj_path, FALSE) IN
        /\ pl.status = "found" => result = Returned(pl.value, before)
        /\ pl.status = "absent" =>
               result = Raised("XJPathError", "Path does not exist", before)

\* The test's case: strict_path_lookup([1, 2, 3], '@9') raises not-found.
C1_Witness ==
    /\ op = "strict_path_lookup"
    /\ force_type = "None"
    /\ before = ListVal(<<One, IntVal(<<"2">>), IntVal(<<"3">>)>>)
    /\ xj_path = <<"@", "9">>
    /\ path_lookup(before, xj_path, FALSE).status = "absent"
    /\ result.status = "XJPathError"
    /\ result.msg = "Path does not exist"

\* C2: path_lookup never raises for plain absence: for a node of any shape
\* and a plain key segment without a type suffix that is not a key of a
\* Mapping node, it returns (None, False) and raises nothing.
C2_PlainAbsenceNeverRaises ==
    (IsLookup /\ Leftover = <<>> /\ IsKeySegment(TopSeg) /\ HeadType = "None"
        /\ ~HasKey(before, HeadKey))
    => result = Absent(before)

\* C3: a violated type expectation raises XJPathError from path_lookup, with
\* the creation flag set or not: a type-suffixed key or index whose value is
\* of another type, a type-suffixed key absent from a node that is no
\* Mapping, a type-suffixed index on a node that is no Sequence; the call
\* never returns (None, False) there and replaces nothing.
C3_TypeViolationRaisesXJPathError ==
    (IsLookup /\ HeadType # "None" /\
        IF IsKeySegment(TopSeg)
        THEN \/ HasKey(before, HeadKey)
                /\ ~IsInstance(before.items[KeyPos(before, HeadKey)].val, HeadType)
             \/ before.kind # "dict"
        ELSE /\ StartsWith(TopSeg, "@")
             /\ ~HeadIndex.err
             /\ \/ ~IsSequence(before)
                \/ /\ IndexPos(before, HeadIndex.idx) > 0
                   /\ ~IsInstance(before.items[IndexPos(before, HeadIndex.idx)].val,
                                  HeadType))
    => (result.status = "XJPathError" /\ result.obj = before)

\* The tokens of the last call's path, as the recursion meets them.
Tokens == split(xj_path, ".", 0 - 1)

TokenType(i) == _clean_key_type(Tokens[i]).val_type
TokenKey(i) == unescape(_clean_key_type(Tokens[i]).key)

\* A path made of type-suffixed key segments.
TypedKeyPath ==
    /\ xj_path # <<>>
    /\ \A i \in 1..Len(Tokens) : IsKeySegment(Tokens[i]) /\ TokenType(i) # "None"

\* The value created for token i with the values of the later tokens in it.
RECURSIVE Vivified(_)
Vivified(i) ==
    IF i = Len(Tokens) THEN EmptyInstance(TokenType(i))
    ELSE DictVal(<<Entry(TokenKey(i + 1), Vivified(i + 1))>>)

C6_NoFlagCreates ==
    (IsLookup /\ create_dict_path = DefaultCreateDictPath /\ Leftover = <<>>
        /\ IsKeySegment(TopSeg) /\ HeadType # "None"
        /\ before.kind = "dict" /\ ~HasKey(before, HeadKey))
    => /\ result = Found(EmptyInstance(HeadType), data_structure)
       /\ data_structure = SetItem(before, HeadKey, EmptyInstance(HeadType))

\* The sub-lookups of a wildcard: the rest of the path on every element.
SubLookups ==
    [i \in 1..Len(before.items) |->
        path_lookup(before.items[i].val, Leftover, create_dict_path)]

FoundValues(outs) ==
    LET found == SelectSeq(outs, LAMBDA o : o.status = "found")
    IN [i \in 1..Len(found) |-> found[i].value]

IsIndexSegment(seg) ==
    StartsWith(seg, "@") /\ ~_get_array_index(_clean_key_type(seg).key).err

\* C8: index absence is silent: on every Sequence node, the empty ones
\* included, an index segment, with or without a type suffix, whose offset
\* lies outside the bounds makes path_lookup return (None, False) without
\* raising.
C8_IndexAbsenceIsSilent ==
    (IsLookup /\ Leftover = <<>> /\ IsIndexSegment(TopSeg) /\ IsSequence(before)
        /\ IndexPos(before, HeadIndex.idx) = 0)
    => result = Absent(before)

\* A value that creation alone built: an empty instance of a type of Allowed,
\* or a dict whose every value creation alone built.
RECURSIVE CreatedOnly(_, _)
CreatedOnly(v, Allowed) ==
    \/ \E t \in Allowed : v = EmptyInstance(t)
    \/ /\ v.kind = "dict"
       /\ "dict" \in Allowed
       /\ \A i \in 1..Len(v.items) : CreatedOnly(v.items[i].val, Allowed)

\* The tree a differs from the tree b only by keys added to dicts, each
\* holding what creation alone built; lists and tuples keep their length.
RECURSIVE OnlyVivified(_, _, _)
OnlyVivified(b, a, Allowed) ==
    /\ a.kind = b.kind
    /\ a.sval = b.sval
    /\ Len(a.items) >= Len(b.items)
    /\ a.kind # "dict" => Len(a.items) = Len(b.items)
    /\ \A i \in 1..Len(b.items) :
           /\ a.items[i].key = b.items[i].key
           /\ OnlyVivified(b.items[i].val, a.items[i].val, Allowed)
    /\ \A i \in (Len(b.items) + 1)..Len(a.items) :
           /\ KeyPos(b, a.items[i].key) = 0
           /\ CreatedOnly(a.items[i].val, Allowed)

\* C10 as stated: after a path_lookup call with the creation flag, every
\* value newly added to the tree is an empty Mapping or an empty Sequence
\* added as a key of a Mapping, never a Scalar, and no Sequence has gained
\* an element.
C10_OnlyContainersCreated ==
    (op = "path_lookup" /\ create_dict_path) =>
        OnlyVivified(before, data_structure, {"dict", "list", "tuple"})

\* C10: after a path_lookup call with the creation flag, every value newly
\* added to the tree is the empty instance of a suffix type (an empty
\* Mapping, list or tuple, or the scalar '', 0 or 0.0) added as a new key of
\* a Mapping; no Sequence has gained an element and no entry that was there
\* is replaced or removed.
C10_OnlyEmptyInstancesCreated ==
    (op = "path_lookup" /\ create_dict_path) =>
        OnlyVivified(before, data_structure,
                     {"str", "int", "float", "dict", "list", "tuple"})

\* A creating call on a list of dicts: a key added inside an element, the
\* list as long as it was.
C10_Witness ==
    /\ op = "path_lookup"
    /\ create_dict_path
    /\ before.kind = "list"
    /\ Len(before.items) = 2
    /\ data_structure # before
    /\ Len(data_structure.items) = 2

\* C9: escaping round-trip: for every non-empty key K over '.', '@', '*',
\* the escape character, the type-suffix characters and a letter, at the
\* first, a middle or the last segment of a path, the path built by
\* prefixing each special character of K with the escape character resolves,
\* on the tree that holds K as a literal key, to (the stored value, True).
C9_EscapingRoundTrip ==
    (op = "path_lookup" /\ escaped.pos \in Positions
        /\ xj_path = EscapedPath(escaped.key, escaped.pos)
        /\ before = LiteralTree(escaped.key, escaped.pos))
    => result = Found(Stored, before)

\* The key \.$ in the middle of the path p.\\\.\$.q has been resolved.
C9_Witness ==
    /\ op = "path_lookup"
    /\ escaped = [key |-> <<"\\", ".", "$">>, pos |-> 2]
    /\ xj_path = <<"p", ".", "\\", "\\", "\\", ".", "\\", "$", ".", "q">>
    /\ before = LiteralTree(escaped.key, 2)
    /\ result = Found(Stored, before)

\* The tokens of the argument of validate_path, split on each '.' that no
\* escape character precedes.
ValidateTokens == split(xj_path.sval, ".", 0 - 1)

\* '@first', '@last', or '@' followed by an optional '-' and one or more
\* digits.
IsIndexForm(token) ==
    \/ token = <<"@", "f", "i", "r", "s", "t">>
    \/ token = <<"@", "l", "a", "s", "t">>
    \/ /\ StartsWith(token, "@")
       /\ LET n == Drop(token, 1) IN
          IsDigit(IF StartsWith(n, "-") THEN Drop(n, 1) ELSE n)

\* C11: validate_path raises XJPathError when its argument is not a string
\* or when some token of the path starts with '@' and is not '@first',
\* '@last' or '@' followed by an optional '-' and one or more digits; for
\* every other string it returns normally ('*' tokens, escaped tokens and
\* plain keys with a type suffix included); the tree is not touched.
C11_ValidatePathGrammar ==
    op = "validate_path" =>
        /\ data_structure = before
        /\ IF xj_path.kind # "str"
              \/ \E i \in 1..Len(ValidateTokens) :
                     /\ StartsWith(ValidateTokens[i], "@")
                     /\ ~IsIndexForm(ValidateTokens[i])
           THEN result.status = "XJPathError"
           ELSE result = Returned(NoneVal, before)

\* C12: creation is all-or-nothing: where path_lookup with the creation flag
\* raises an error or returns exists=False the tree is exactly as it was
\* before the call; what creation added for earlier segments of the path is
\* in the tree only where the call returns exists=True.
C12_CreationAllOrNothing ==
    (op = "path_lookup" /\ create_dict_path) =>
        /\ (IsRaise(result) \/ result.status = "absent") => data_structure = before
        /\ data_structure # before => result.status = "found"

\* The length of the marker a token ends in, the two-character markers
\* tried first; 0 for a token that ends in no marker.
TrailingMarker(token) ==
    IF Len(token) >= 2
       /\ SubSeq(token, Len(token) - 1, Len(token))
              \in {<<"{", "}">>, <<"[", "]">>, <<"(", ")">>}
    THEN 2
    ELSE IF Len(token) >= 1 /\ token[Len(token)] \in {"$", "#", "%"}
    THEN 1
    ELSE 0

\* The number of consecutive escape characters right before position pos + 1.
EscapesBefore(token, pos) ==
    CHOOSE n \in 0..pos :
        /\ \A j \in (pos - n + 1)..pos : token[j] = "\\"
        /\ n = pos \/ token[pos - n] # "\\"

\* What the rule of C13 gives for a token.
SuffixRule(token) ==
    LET m == TrailingMarker(token)
        stem == Len(token) - m
    IN IF m > 0 /\ EscapesBefore(token, stem) % 2 = 0
       THEN [val_type |-> KeySplitType(SubSeq(token, stem + 1, Len(token))),
             key |-> SubSeq(token, 1, stem)]
       ELSE [val_type |-> "None", key |-> token]

\* C13: for every raw token of length >= 1, the tokens that are nothing but
\* a marker included, _clean_key_type tries the two-character marker, then
\* the one-character marker, counts the escape characters right before the
\* trailing marker and returns (marker type, token without the marker) for
\* an even count (zero included), (None, token unchanged) for an odd count
\* or a token that ends in no marker.
C13_SuffixExtraction ==
    op = "_clean_key_type" => result.value = SuffixRule(xj_path)

====
